---- MODULE Spec2Model ----
(***************************************************************************)
(* Model of prototype_fetch_exadata.py: ExadataDataFetcher.fetch_all_data  *)
(* and the methods it calls, run against an OCI provider.                  *)
(*                                                                         *)
(* The program is one sequential process; pc is its position.  Every       *)
(* provider request is one step.  The provider is a fixed dataset that is  *)
(* revealed request by request: the first time a request is made its       *)
(* response is chosen from the responses a provider can give, and the      *)
(* same request gets the same response from then on (variable provider).   *)
(***************************************************************************)
EXTENDS Integers, Sequences, FiniteSets, TLC

(***************************************************************************)
(* Bounds of the explored datasets.                                        *)
(***************************************************************************)
\* the size of the dataset: its listed items (compartments, infrastructures,
\* VM clusters), its continuation cursors and its failing requests together
MaxWeight == 3
\* list_vm_cluster_patches returns at most MaxPatches entries
MaxPatches == 6
\* the program is run at most MaxRuns times against the same dataset
MaxRuns == 2

(***************************************************************************)
(* Values.                                                                 *)
(***************************************************************************)
\* Python's None
None == [none |-> TRUE]

\* a Python str used as a pagination cursor (opc-next-page)
Str(s) == [str |-> s]

\* the cursor the provider hands out to reach page k of a listing (k >= 2)
Token(k) == Str("p" \o ToString(k))
PageIndex(page) == IF page = None THEN 1 ELSE CHOOSE k \in 2..MaxWeight + 1 : Token(k) = page

\* display names are byte strings; the provider orders them by byte value
Names == {<<97, 98>>, <<98>>}

RECURSIVE LexLeq(_, _)
LexLeq(a, b) ==
    IF a = <<>> THEN TRUE
    ELSE IF b = <<>> THEN FALSE
    ELSE IF Head(a) < Head(b) THEN TRUE
    ELSE IF Head(a) > Head(b) THEN FALSE
    ELSE LexLeq(Tail(a), Tail(b))

LifecycleStates == {"ACTIVE", "DELETED"}

\* exceptions a provider call can raise: oci.exceptions.ServiceError,
\* oci.exceptions.RequestException, and a BaseException that is not an Exception
ErrKinds == {"ServiceError", "RequestException", "KeyboardInterrupt"}

TenancyId == 0

Max(S) == CHOOSE m \in S : \A n \in S : n <= m

RECURSIVE SumLen(_, _)
SumLen(f, keys) ==
    IF keys = {} THEN 0
    ELSE LET k == CHOOSE k \in keys : TRUE
         IN Len(f[k].data) + SumLen(f, keys \ {k})

(***************************************************************************)
(* State.                                                                  *)
(***************************************************************************)
VARIABLES
    provider,               \* request -> response: the part of the dataset revealed so far
    pc,                     \* position of the program
    tenancy_id,             \* self.tenancy_id
    all_compartments,       \* list_all_compartments: all_compartments
    page,                   \* the cursor variable of the listing loop that is running
    compartments_to_scan,   \* fetch_all_data: compartments_to_scan
    ci,                     \* index of `compartment` in compartments_to_scan
    all_infrastructures,    \* list_exadata_infrastructures: all_infrastructures
    infrastructures,        \* fetch_all_data: infrastructures
    ii,                     \* index of `infra` in infrastructures
    infra,                  \* get_exadata_infrastructure_details: infra
    ocpu_info,              \* get_exadata_infrastructure_details: ocpu_info
    infra_details,          \* fetch_all_data: infra_details
    all_clusters,           \* list_vm_clusters: all_clusters
    vm_clusters,            \* fetch_all_data: vm_clusters
    ki,                     \* index of `cluster` in vm_clusters
    cluster,                \* get_vm_cluster_details: cluster
    iorm_config,            \* get_vm_cluster_details: iorm_config
    vm_clusters_details,    \* fetch_all_data: vm_clusters_details
    compartment_data,       \* fetch_all_data: compartment_data
    result,                 \* fetch_all_data: result
    total_infrastructures,  \* fetch_all_data: total_infrastructures
    total_vm_clusters,      \* fetch_all_data: total_vm_clusters
    raised,                 \* the exception that left fetch_all_data (None: none)
    returned,               \* the value fetch_all_data returned (None: it has not returned)
    reqlog,                 \* the provider requests issued so far, with their outcomes
    stdout,                 \* the lines printed so far
    output_file,            \* content of the output file (None: not written)
    exit_code,              \* exit status of the process (None: still running)
    previous                \* what fetch_all_data returned in the earlier runs, in order

discovery == <<tenancy_id, all_compartments, compartments_to_scan>>
infraListing == <<all_infrastructures, infrastructures>>
infraDetail == <<infra, ocpu_info, infra_details>>
clusterListing == <<all_clusters, vm_clusters>>
clusterDetail == <<cluster, iorm_config, vm_clusters_details>>
report == <<compartment_data, result>>
totals == <<total_infrastructures, total_vm_clusters>>
outcome == <<raised, returned, output_file, exit_code>>

vars == <<provider, pc, page, ci, ii, ki, discovery, infraListing, infraDetail,
          clusterListing, clusterDetail, report, totals, outcome, reqlog, stdout, previous>>

(***************************************************************************)
(* The provider.                                                           *)
(***************************************************************************)
ListOps == {"list_compartments", "list_exadata_infrastructures", "list_vm_clusters"}

\* a request: the SDK operation, its identifying arguments, the sort it asks
\* for (None: the call passes no sort_by) and the page cursor
Request(op, args, sort_by, cursor) ==
    [op |-> op, args |-> args, sort_by |-> sort_by, page |-> cursor]

Ok(data, next_page) == [status |-> "ok", data |-> data, next_page |-> next_page]
\* a raised exception: its class and the identifiers its text (its message and
\* its str()) names; the text is the provider's, it may name the target of the
\* request or not
Raise(kind, names) == [status |-> kind, names |-> names, data |-> <<>>, next_page |-> None]

\* the texts an exception raised for a request can have
ErrNames(req) == {{}, {req.args[i] : i \in 1..Len(req.args)}}

\* the successful listing responses revealed so far
Listed(p, op) == {k \in DOMAIN p : k.op = op /\ p[k].status = "ok"}

\* number of listed items of the dataset revealed so far
ItemsServed(p) ==
    SumLen(p, Listed(p, "list_compartments"))
    + SumLen(p, Listed(p, "list_exadata_infrastructures"))
    + SumLen(p, Listed(p, "list_vm_clusters"))

\* number of failing requests of the dataset revealed so far
Faults(p) == Cardinality({k \in DOMAIN p : p[k].status # "ok"})

\* number of continuation cursors of the dataset revealed so far
Cursors(p) == Cardinality({k \in DOMAIN p : p[k].next_page # None})

\* what is left of the dataset's size
Room(p) == MaxWeight - (ItemsServed(p) + Faults(p) + Cursors(p))

\* the items of the pages of the same listing revealed so far
EarlierItems(p, req) ==
    UNION {{p[k].data[i] : i \in 1..Len(p[k].data)} :
           k \in {k \in Listed(p, req.op) : k.args = req.args /\ k.sort_by = req.sort_by}}

IsSortedByName(items) ==
    \A i \in 1..Len(items) - 1 : LexLeq(items[i].display_name, items[i + 1].display_name)

\* a provider honours sort_by=DISPLAYNAME, sort_order=ASC over the whole listing
HonoursSort(p, req, items) ==
    req.sort_by # Str("DISPLAYNAME")
    \/ /\ IsSortedByName(items)
       /\ \A e \in EarlierItems(p, req) : \A i \in 1..Len(items) :
              LexLeq(e.display_name, items[i].display_name)

\* the name of the compartment with identifier id (0 is the tenancy)
CompName(id) == IF id % 2 = 0 THEN <<98>> ELSE <<97, 98>>

\* the compartment identifiers revealed so far
KnownCompIds(p) ==
    {TenancyId} \cup UNION {{p[k].data[i].id : i \in 1..Len(p[k].data)} :
                            k \in Listed(p, "list_compartments")}

\* compartments as list_compartments can return them: a page repeats known
\* compartments (the tenancy is one) or reveals the next new ones, in any
\* lifecycle state
CompartmentPages(p, n) ==
    LET top == Max(KnownCompIds(p))
    IN {items \in [1..n -> [id : 0..top + n, lifecycle_state : LifecycleStates]] :
           \A i \in 1..n :
               items[i].id <= 1 + Max({top} \cup {items[j].id : j \in 1..i - 1})}

Compartment(c) ==
    [id |-> c.id, name |-> CompName(c.id), lifecycle_state |-> c.lifecycle_state]

\* resources get identifiers in the order the provider reveals them
Resources(p, op, n) ==
    LET base == SumLen(p, Listed(p, op))
    IN {items \in [1..n -> [id : base + 1..base + n, display_name : Names]] :
           \A i \in 1..n : items[i].id = base + i}

PageData(p, req) ==
    IF req.op = "list_compartments"
    THEN {[i \in 1..Len(items) |-> Compartment(items[i])] :
             items \in UNION {CompartmentPages(p, n) : n \in 0..Room(p)}}
    ELSE {items \in UNION {Resources(p, req.op, n) : n \in 0..Room(p)} :
             HonoursSort(p, req, items)}

\* the cursors a response with n items can carry
NextCursors(p, req, n) ==
    {None} \cup (IF n < Room(p) THEN {Token(PageIndex(req.page) + 1)} ELSE {})

\* the resources the listings of kind op have revealed so far
ListedItems(p, op) ==
    UNION {{p[k].data[i] : i \in 1..Len(p[k].data)} : k \in Listed(p, op)}

\* the base record get_exadata_infrastructure or get_vm_cluster returns for
\* the resource a listing of kind op revealed with identifier id
BaseRecord(p, op, id) ==
    LET item == CHOOSE e \in ListedItems(p, op) : e.id = id
    IN [id |-> id, display_name |-> item.display_name]

\* the optional sub-record a get_* request returns for resource id
SubRecord(op, id) == [of |-> op, id |-> id]

\* the update entries list_vm_cluster_patches can return
PatchLists == {[i \in 1..n |-> [patch |-> i]] : n \in 0..MaxPatches}

\* the responses a provider can give to a request it has not seen
Choices(p, req) ==
    (IF Room(p) > 0
     THEN {Raise(kind, names) : kind \in ErrKinds, names \in ErrNames(req)}
     ELSE {}) \cup
    IF req.op \in ListOps
    THEN UNION {{Ok(data, next) : next \in NextCursors(p, req, Len(data))} :
                data \in PageData(p, req)}
    ELSE IF req.op = "get_tenancy"
    THEN {Ok([id |-> req.args[1], name |-> CompName(req.args[1])], None)}
    ELSE IF req.op = "list_vm_cluster_patches"
    THEN {Ok(data, None) : data \in PatchLists}
    ELSE IF req.op = "get_exadata_infrastructure"
    THEN {Ok(BaseRecord(p, "list_exadata_infrastructures", req.args[1]), None)}
    ELSE IF req.op = "get_vm_cluster"
    THEN {Ok(BaseRecord(p, "list_vm_clusters", req.args[1]), None)}
    ELSE {Ok(SubRecord(req.op, req.args[1]), None)}

\* the dataset is fixed: a request seen before gets the response it got
Responses(p, req) == IF req \in DOMAIN p THEN {p[req]} ELSE Choices(p, req)

Reveal(p, req, resp) == (req :> resp) @@ p

(***************************************************************************)
(* The program.                                                            *)
(***************************************************************************)
\* Python truthiness of a cursor: `if not page: break` leaves the loop on
\* None and on the empty string
Truthy(cursor) == cursor # None /\ cursor # Str("")

Line(text, args) == [text |-> text, args |-> args]

Logged(req, resp) == Append(reqlog, [req |-> req, resp |-> resp])

Init ==
    /\ provider = <<>>
    /\ pc = "main"
    /\ tenancy_id = None
    /\ all_compartments = <<>>
    /\ page = None
    /\ compartments_to_scan = <<>>
    /\ ci = 0
    /\ all_infrastructures = <<>>
    /\ infrastructures = <<>>
    /\ ii = 0
    /\ infra = None
    /\ ocpu_info = None
    /\ infra_details = None
    /\ all_clusters = <<>>
    /\ vm_clusters = <<>>
    /\ ki = 0
    /\ cluster = None
    /\ iorm_config = None
    /\ vm_clusters_details = <<>>
    /\ compartment_data = None
    /\ result = None
    /\ total_infrastructures = 0
    /\ total_vm_clusters = 0
    /\ raised = None
    /\ returned = None
    /\ reqlog = <<>>
    /\ stdout = <<>>
    /\ output_file = None
    /\ exit_code = None
    /\ previous = <<>>

\* main: the JSON document built from the data fetch_all_data returned
JsonData(data) ==
    [tenancy_id |-> data.tenancy_id,
     compartments |->
        [c \in 1..Len(data.compartments) |->
            LET cd == data.compartments[c]
            IN [compartment_id |-> cd.compartment_id,
                compartment_name |-> cd.compartment_name,
                infrastructures |->
                   [i \in 1..Len(cd.infrastructures) |->
                       LET id == cd.infrastructures[i]
                       IN [infrastructure |-> [id |-> id.details.infrastructure.id],
                           vm_clusters |->
                              [k \in 1..Len(id.vm_clusters) |->
                                  [id |-> id.vm_clusters[k].cluster.id]]]]]]]

\* faulty variant: what was assembled so far is saved when the run fails
Propagate_SavesPartial(req, resp, handlers, text) ==
    /\ resp.status # "ok"
    /\ provider' = Reveal(provider, req, resp)
    /\ reqlog' = Logged(req, resp)
    /\ raised' = [type |-> resp.status, names |-> resp.names, request |-> req]
    /\ stdout' = stdout
                 \o (IF resp.status \in handlers
                     THEN <<Line(text, <<resp.status, resp.names>>)>>
                     ELSE <<>>)
                 \o (IF resp.status = "KeyboardInterrupt"
                     THEN <<>>
                     ELSE <<Line("Error occurred", <<resp.status, resp.names>>)>>)
    /\ exit_code' = IF resp.status = "KeyboardInterrupt" THEN 130 ELSE 1
    /\ pc' = "exit"
    /\ UNCHANGED <<previous, page, ci, ii, ki, discovery, infraListing, infraDetail, clusterListing,
                   clusterDetail, report, totals, returned>>
    /\ output_file' = IF result = None THEN None ELSE JsonData(result)

\* a provider call raises and no handler on the way up to main catches the
\* exception for good: the handlers named in `handlers` print and re-raise.
\* main's `except Exception` prints the error and exits with status 1; a
\* KeyboardInterrupt is no Exception and ends the interpreter with status 130
Propagate(req, resp, handlers, text) ==
    /\ resp.status # "ok"
    /\ provider' = Reveal(provider, req, resp)
    /\ reqlog' = Logged(req, resp)
    /\ raised' = [type |-> resp.status, names |-> resp.names, request |-> req]
    /\ stdout' = stdout
                 \o (IF resp.status \in handlers
                     THEN <<Line(text, <<resp.status, resp.names>>)>>
                     ELSE <<>>)
                 \o (IF resp.status = "KeyboardInterrupt"
                     THEN <<>>
                     ELSE <<Line("Error occurred", <<resp.status, resp.names>>)>>)
    /\ exit_code' = IF resp.status = "KeyboardInterrupt" THEN 130 ELSE 1
    /\ pc' = "exit"
    /\ UNCHANGED <<previous, page, ci, ii, ki, discovery, infraListing, infraDetail, clusterListing,
                   clusterDetail, report, totals, returned, output_file>>

\* main: ExadataDataFetcher(profile=args.profile) loads and validates the configuration
Construct ==
    /\ pc = "main"
    /\ tenancy_id' = TenancyId
    /\ pc' = "fetch_all_data"
    /\ stdout' = Append(stdout, Line("OCI ExadataCC Data Fetcher - Prototype", <<>>))
    /\ UNCHANGED <<previous, provider, page, ci, ii, ki, all_compartments, compartments_to_scan,
                   infraListing, infraDetail, clusterListing, clusterDetail, report, totals,
                   outcome, reqlog>>

\* faulty variant: the configuration is validated only by the first request
ConstructFail_Late ==
    /\ pc = "main"
    /\ pc' = "exit"
    /\ exit_code' = 1
    /\ reqlog' = Logged(Request("get_tenancy", <<TenancyId>>, None, None),
                        Raise("ServiceError", {}))
    /\ stdout' = stdout \o <<Line("OCI ExadataCC Data Fetcher - Prototype", <<>>),
                             Line("Error occurred", <<"ConfigError", {}>>)>>
    /\ UNCHANGED <<previous, provider, page, ci, ii, ki, discovery, infraListing, infraDetail,
                   clusterListing, clusterDetail, report, totals, raised, returned,
                   output_file>>

\* main: from_file or validate_config raises; main's handler prints and exits
ConstructFail ==
    /\ pc = "main"
    /\ pc' = "exit"
    /\ exit_code' = 1
    /\ stdout' = stdout \o <<Line("OCI ExadataCC Data Fetcher - Prototype", <<>>),
                             Line("Error occurred", <<"ConfigError", {}>>)>>
    /\ UNCHANGED <<previous, provider, page, ci, ii, ki, discovery, infraListing, infraDetail,
                   clusterListing, clusterDetail, report, totals, raised, returned,
                   output_file, reqlog>>

TenancyRequest == Request("get_tenancy", <<tenancy_id>>, None, None)

\* faulty variant: result is kept from the run before instead of being built anew
GetTenancy_KeepsResult ==
    /\ pc = "fetch_all_data"
    /\ \E resp \in Responses(provider, TenancyRequest) :
        /\ resp.status = "ok"
        /\ provider' = Reveal(provider, TenancyRequest, resp)
        /\ reqlog' = Logged(TenancyRequest, resp)
        /\ all_compartments' = <<[id |-> resp.data.id,
                                  name |-> resp.data.name,
                                  lifecycle_state |-> "ACTIVE",
                                  is_root |-> TRUE]>>
    /\ result' = IF result = None
                 THEN [tenancy_id |-> tenancy_id, compartments |-> <<>>]
                 ELSE result
    /\ stdout' = Append(stdout, Line("Discovering compartments in tenancy", <<tenancy_id>>))
    /\ page' = None
    /\ pc' = "list_compartments"
    /\ UNCHANGED <<previous, ci, ii, ki, tenancy_id, compartments_to_scan, infraListing, infraDetail,
                   clusterListing, clusterDetail, compartment_data, totals, outcome>>

\* fetch_all_data up to and including list_all_compartments' get_tenancy
GetTenancy ==
    /\ pc = "fetch_all_data"
    /\ \E resp \in Responses(provider, TenancyRequest) :
        /\ resp.status = "ok"
        /\ provider' = Reveal(provider, TenancyRequest, resp)
        /\ reqlog' = Logged(TenancyRequest, resp)
        /\ all_compartments' = <<[id |-> resp.data.id,
                                  name |-> resp.data.name,
                                  lifecycle_state |-> "ACTIVE",
                                  is_root |-> TRUE]>>
    /\ result' = [tenancy_id |-> tenancy_id, compartments |-> <<>>]
    /\ stdout' = Append(stdout, Line("Discovering compartments in tenancy", <<tenancy_id>>))
    /\ page' = None
    /\ pc' = "list_compartments"
    /\ UNCHANGED <<previous, ci, ii, ki, tenancy_id, compartments_to_scan, infraListing, infraDetail,
                   clusterListing, clusterDetail, compartment_data, totals, outcome>>

\* fetch_all_data has built result and list_all_compartments has printed its
\* first line and emptied all_compartments when get_tenancy raises; the
\* handler of list_all_compartments prints and re-raises a ServiceError, and
\* the exception leaves as in Propagate
GetTenancyFail ==
    /\ pc = "fetch_all_data"
    /\ \E resp \in Responses(provider, TenancyRequest) :
        /\ resp.status # "ok"
        /\ provider' = Reveal(provider, TenancyRequest, resp)
        /\ reqlog' = Logged(TenancyRequest, resp)
        /\ raised' = [type |-> resp.status, names |-> resp.names, request |-> TenancyRequest]
        /\ stdout' = stdout
                     \o <<Line("Discovering compartments in tenancy", <<tenancy_id>>)>>
                     \o (IF resp.status = "ServiceError"
                         THEN <<Line("Service Error", <<resp.status, resp.names>>)>>
                         ELSE <<>>)
                     \o (IF resp.status = "KeyboardInterrupt"
                         THEN <<>>
                         ELSE <<Line("Error occurred", <<resp.status, resp.names>>)>>)
        /\ exit_code' = IF resp.status = "KeyboardInterrupt" THEN 130 ELSE 1
    /\ result' = [tenancy_id |-> tenancy_id, compartments |-> <<>>]
    /\ all_compartments' = <<>>
    /\ pc' = "exit"
    /\ UNCHANGED <<previous, page, ci, ii, ki, tenancy_id, compartments_to_scan, infraListing,
                   infraDetail, clusterListing, clusterDetail, compartment_data, totals,
                   returned, output_file>>

CompartmentsRequest == Request("list_compartments", <<tenancy_id>>, None, page)

\* faulty variant: the lifecycle state is not looked at
ActiveCompartments_All(data) ==
    [i \in 1..Len(data) |-> [id |-> data[i].id,
                              name |-> data[i].name,
                              lifecycle_state |-> data[i].lifecycle_state,
                              is_root |-> FALSE]]

\* the dictionaries list_compartments_recursive appends for one page
ActiveCompartments(data) ==
    LET keep == SelectSeq(data, LAMBDA c : c.lifecycle_state = "ACTIVE")
    IN [i \in 1..Len(keep) |-> [id |-> keep[i].id,
                                name |-> keep[i].name,
                                lifecycle_state |-> keep[i].lifecycle_state,
                                is_root |-> FALSE]]

\* one iteration of list_compartments_recursive's loop; after the last one
\* list_all_compartments returns and fetch_all_data reaches its for loop
ListCompartmentsPage ==
    /\ pc = "list_compartments"
    /\ \E resp \in Responses(provider, CompartmentsRequest) :
        /\ resp.status = "ok"
        /\ provider' = Reveal(provider, CompartmentsRequest, resp)
        /\ reqlog' = Logged(CompartmentsRequest, resp)
        /\ all_compartments' = all_compartments \o ActiveCompartments(resp.data)
        /\ page' = resp.next_page
    /\ IF Truthy(page')
       THEN UNCHANGED <<pc, ci, compartments_to_scan, totals, stdout>>
       ELSE /\ compartments_to_scan' = all_compartments'
            /\ stdout' = Append(stdout, Line("Found accessible compartment(s)",
                                            <<Len(all_compartments')>>))
            /\ total_infrastructures' = 0
            /\ total_vm_clusters' = 0
            /\ ci' = 1
            /\ pc' = "for_compartment"
    /\ UNCHANGED <<previous, ii, ki, tenancy_id, infraListing, infraDetail, clusterListing,
                   clusterDetail, report, outcome>>

ListCompartmentsFail ==
    /\ pc = "list_compartments"
    /\ \E resp \in Responses(provider, CompartmentsRequest) :
        Propagate(CompartmentsRequest, resp, {"ServiceError"}, "Service Error")

\* fetch_all_data: the `compartment` of the running iteration
compartment == compartments_to_scan[ci]

\* fetch_all_data: the for loop takes the next compartment and
\* list_exadata_infrastructures starts
ScanCompartment ==
    /\ pc = "for_compartment"
    /\ ci <= Len(compartments_to_scan)
    /\ stdout' = Append(stdout, Line("Scanning compartment", <<compartment.name, compartment.id>>))
    /\ all_infrastructures' = <<>>
    /\ page' = None
    /\ pc' = "list_exadata_infrastructures"
    /\ UNCHANGED <<previous, provider, ci, ii, ki, discovery, infrastructures, infraDetail,
                   clusterListing, clusterDetail, report, totals, outcome, reqlog>>

\* fetch_all_data: the for loop is exhausted and the function returns result
ReturnResult ==
    /\ pc = "for_compartment"
    /\ ci > Len(compartments_to_scan)
    /\ stdout' = Append(stdout, Line("Total", <<total_infrastructures, total_vm_clusters>>))
    /\ returned' = result
    /\ pc' = "returned"
    /\ UNCHANGED <<previous, provider, page, ci, ii, ki, discovery, infraListing, infraDetail,
                   clusterListing, clusterDetail, report, totals, raised, output_file,
                   exit_code, reqlog>>

\* faulty variant: a compartment without infrastructures is not skipped
NotInfrastructures_Never(listing) == FALSE

\* fetch_all_data: `if not infrastructures`
NotInfrastructures(listing) == listing = <<>>

\* faulty variant: the cursor is not passed on
InfrastructuresRequest_FirstPage ==
    Request("list_exadata_infrastructures", <<compartment.id>>, Str("DISPLAYNAME"), None)

InfrastructuresRequest ==
    Request("list_exadata_infrastructures", <<compartment.id>>, Str("DISPLAYNAME"), page)

\* one iteration of list_exadata_infrastructures' loop; after the last one the
\* function returns and fetch_all_data skips the compartment or opens its entry
ListInfrastructuresPage ==
    /\ pc = "list_exadata_infrastructures"
    /\ \E resp \in Responses(provider, InfrastructuresRequest) :
        /\ resp.status = "ok"
        /\ provider' = Reveal(provider, InfrastructuresRequest, resp)
        /\ reqlog' = Logged(InfrastructuresRequest, resp)
        /\ all_infrastructures' = all_infrastructures \o resp.data
        /\ page' = resp.next_page
    /\ IF Truthy(page')
       THEN UNCHANGED <<pc, ci, ii, infrastructures, compartment_data,
                        total_infrastructures, stdout>>
       ELSE /\ infrastructures' = all_infrastructures'
            /\ IF NotInfrastructures(infrastructures')
               THEN /\ stdout' = Append(stdout, Line("No Exadata infrastructures found", <<>>))
                    /\ ci' = ci + 1
                    /\ pc' = "for_compartment"
                    /\ UNCHANGED <<ii, compartment_data, total_infrastructures>>
               ELSE /\ stdout' = Append(stdout, Line("Found infrastructure(s)",
                                                    <<Len(infrastructures')>>))
                    /\ total_infrastructures' = total_infrastructures + Len(infrastructures')
                    /\ compartment_data' = [compartment_id |-> compartment.id,
                                            compartment_name |-> compartment.name,
                                            infrastructures |-> <<>>]
                    /\ ii' = 1
                    /\ pc' = "for_infra"
                    /\ UNCHANGED ci
    /\ UNCHANGED <<previous, ki, discovery, infraDetail, clusterListing, clusterDetail, result,
                   total_vm_clusters, outcome>>

\* faulty variant: the handler swallows the error and returns an empty list
ListInfrastructuresFail_Swallowed ==
    /\ pc = "list_exadata_infrastructures"
    /\ \E resp \in Responses(provider, InfrastructuresRequest) :
        /\ resp.status # "ok"
        /\ provider' = Reveal(provider, InfrastructuresRequest, resp)
        /\ reqlog' = Logged(InfrastructuresRequest, resp)
    /\ infrastructures' = <<>>
    /\ ci' = ci + 1
    /\ pc' = "for_compartment"
    /\ UNCHANGED <<previous, page, ii, ki, discovery, all_infrastructures, infraDetail, clusterListing,
                   clusterDetail, report, totals, outcome, stdout>>

ListInfrastructuresFail ==
    /\ pc = "list_exadata_infrastructures"
    /\ \E resp \in Responses(provider, InfrastructuresRequest) :
        /\ resp.status # "ok"
        /\ IF resp.status = "RequestException"
           THEN Propagate(InfrastructuresRequest, resp, {"RequestException"}, "Request Error")
           ELSE Propagate(InfrastructuresRequest, resp, {"ServiceError"}, "Service Error")

\* fetch_all_data: the `infra` of the running iteration of the inner loop
infra_item == infrastructures[ii]

\* faulty variant: the infrastructure is taken without a progress line
ProcessInfrastructure_Silent ==
    /\ pc = "for_infra"
    /\ ii <= Len(infrastructures)
    /\ pc' = "get_exadata_infrastructure"
    /\ UNCHANGED <<previous, provider, page, ci, ii, ki, discovery, infraListing, infraDetail,
                   clusterListing, clusterDetail, report, totals, outcome, reqlog, stdout>>

\* fetch_all_data: the inner for loop takes the next infrastructure
ProcessInfrastructure ==
    /\ pc = "for_infra"
    /\ ii <= Len(infrastructures)
    /\ stdout' = Append(stdout, Line("Processing infrastructure", <<infra_item.display_name>>))
    /\ pc' = "get_exadata_infrastructure"
    /\ UNCHANGED <<previous, provider, page, ci, ii, ki, discovery, infraListing, infraDetail,
                   clusterListing, clusterDetail, report, totals, outcome, reqlog>>

\* fetch_all_data: the inner for loop is exhausted; the compartment's entry
\* is appended to result["compartments"]
AppendCompartment ==
    /\ pc = "for_infra"
    /\ ii > Len(infrastructures)
    /\ result' = [result EXCEPT !.compartments = Append(@, compartment_data)]
    /\ stdout' = Append(stdout, Line("", <<>>))
    /\ ci' = ci + 1
    /\ pc' = "for_compartment"
    /\ UNCHANGED <<previous, provider, page, ii, ki, discovery, infraListing, infraDetail,
                   clusterListing, clusterDetail, compartment_data, totals, outcome, reqlog>>

InfrastructureRequest ==
    Request("get_exadata_infrastructure", <<infra_item.id>>, None, None)

\* get_exadata_infrastructure_details: the mandatory base record
GetInfrastructure ==
    /\ pc = "get_exadata_infrastructure"
    /\ \E resp \in Responses(provider, InfrastructureRequest) :
        /\ resp.status = "ok"
        /\ provider' = Reveal(provider, InfrastructureRequest, resp)
        /\ reqlog' = Logged(InfrastructureRequest, resp)
        /\ infra' = resp.data
    /\ pc' = "get_exadata_infrastructure_ocpus"
    /\ UNCHANGED <<previous, page, ci, ii, ki, discovery, infraListing, ocpu_info, infra_details,
                   clusterListing, clusterDetail, report, totals, outcome, stdout>>

\* faulty variant: the failure is caught and the infrastructure is left out
GetInfrastructureFail_Skipped ==
    /\ pc = "get_exadata_infrastructure"
    /\ \E resp \in Responses(provider, InfrastructureRequest) :
        /\ resp.status # "ok"
        /\ provider' = Reveal(provider, InfrastructureRequest, resp)
        /\ reqlog' = Logged(InfrastructureRequest, resp)
    /\ ii' = ii + 1
    /\ pc' = "for_infra"
    /\ UNCHANGED <<previous, page, ci, ki, discovery, infraListing, infraDetail, clusterListing,
                   clusterDetail, report, totals, outcome, stdout>>

GetInfrastructureFail ==
    /\ pc = "get_exadata_infrastructure"
    /\ \E resp \in Responses(provider, InfrastructureRequest) :
        Propagate(InfrastructureRequest, resp, {"ServiceError"},
                  "Service Error fetching infrastructure details")

OcpusRequest ==
    Request("get_exadata_infrastructure_ocpus", <<infra_item.id>>, None, None)

\* faulty variant: the OCPU fetch is not wrapped in try/except
GetOcpus_Fatal ==
    /\ pc = "get_exadata_infrastructure_ocpus"
    /\ \E resp \in Responses(provider, OcpusRequest) :
        IF resp.status = "ok"
        THEN /\ provider' = Reveal(provider, OcpusRequest, resp)
             /\ reqlog' = Logged(OcpusRequest, resp)
             /\ ocpu_info' = resp.data
             /\ pc' = "get_exadata_infrastructure_un_allocated_resources"
             /\ UNCHANGED <<previous, page, ci, ii, ki, discovery, infraListing, infra,
                            infra_details, clusterListing, clusterDetail, report, totals,
                            outcome, stdout>>
        ELSE Propagate(OcpusRequest, resp, {"ServiceError"},
                       "Service Error fetching infrastructure details")

\* faulty variant: a failed OCPU fetch ends the detail fetch, the unallocated
\* resources are not asked for
GetOcpus_FailureSkipsRest ==
    /\ pc = "get_exadata_infrastructure_ocpus"
    /\ \E resp \in Responses(provider, OcpusRequest) :
        /\ provider' = Reveal(provider, OcpusRequest, resp)
        /\ reqlog' = Logged(OcpusRequest, resp)
        /\ IF resp.status = "ok"
           THEN /\ ocpu_info' = resp.data
                /\ pc' = "get_exadata_infrastructure_un_allocated_resources"
                /\ UNCHANGED <<page, infra_details, all_clusters>>
           ELSE /\ ocpu_info' = None
                /\ infra_details' = [infrastructure |-> infra,
                                     ocpu_info |-> None,
                                     unallocated_resources |-> None]
                /\ all_clusters' = <<>>
                /\ page' = None
                /\ pc' = "list_vm_clusters"
    /\ UNCHANGED <<previous, ci, ii, ki, discovery, infraListing, infra, vm_clusters,
                   clusterDetail, report, totals, outcome, stdout>>

\* get_exadata_infrastructure_details: the optional OCPU record; the bare
\* except turns any exception into None
GetOcpus ==
    /\ pc = "get_exadata_infrastructure_ocpus"
    /\ \E resp \in Responses(provider, OcpusRequest) :
        /\ provider' = Reveal(provider, OcpusRequest, resp)
        /\ reqlog' = Logged(OcpusRequest, resp)
        /\ ocpu_info' = IF resp.status = "ok" THEN resp.data ELSE None
    /\ pc' = "get_exadata_infrastructure_un_allocated_resources"
    /\ UNCHANGED <<previous, page, ci, ii, ki, discovery, infraListing, infra, infra_details,
                   clusterListing, clusterDetail, report, totals, outcome, stdout>>

UnallocatedRequest ==
    Request("get_exadata_infrastructure_un_allocated_resources", <<infra_item.id>>, None, None)

\* faulty variant: the infrastructure's entry is attached as soon as its details
\* are fetched, before its VM clusters are listed
GetUnallocated_AttachesEarly ==
    /\ pc = "get_exadata_infrastructure_un_allocated_resources"
    /\ \E resp \in Responses(provider, UnallocatedRequest) :
        /\ provider' = Reveal(provider, UnallocatedRequest, resp)
        /\ reqlog' = Logged(UnallocatedRequest, resp)
        /\ infra_details' =
               [infrastructure |-> infra,
                ocpu_info |-> ocpu_info,
                unallocated_resources |-> IF resp.status = "ok" THEN resp.data ELSE None]
    /\ all_clusters' = <<>>
    /\ page' = None
    /\ pc' = "list_vm_clusters"
    /\ UNCHANGED <<previous, ci, ii, ki, discovery, infraListing, infra, ocpu_info, vm_clusters,
                   clusterDetail, result, totals, outcome, stdout>>
    /\ compartment_data' =
           [compartment_data EXCEPT !.infrastructures =
                Append(@, [details |-> infra_details', vm_clusters |-> <<>>])]

\* get_exadata_infrastructure_details: the optional unallocated-resources
\* record, the return of the details, and the start of list_vm_clusters
GetUnallocated ==
    /\ pc = "get_exadata_infrastructure_un_allocated_resources"
    /\ \E resp \in Responses(provider, UnallocatedRequest) :
        /\ provider' = Reveal(provider, UnallocatedRequest, resp)
        /\ reqlog' = Logged(UnallocatedRequest, resp)
        /\ infra_details' =
               [infrastructure |-> infra,
                ocpu_info |-> ocpu_info,
                unallocated_resources |-> IF resp.status = "ok" THEN resp.data ELSE None]
    /\ all_clusters' = <<>>
    /\ page' = None
    /\ pc' = "list_vm_clusters"
    /\ UNCHANGED <<previous, ci, ii, ki, discovery, infraListing, infra, ocpu_info, vm_clusters,
                   clusterDetail, report, totals, outcome, stdout>>

VmClustersRequest ==
    Request("list_vm_clusters", <<compartment.id, infra_item.id>>, Str("DISPLAYNAME"), page)

\* one iteration of list_vm_clusters' loop; after the last one the function
\* returns and fetch_all_data reaches the loop over the clusters
ListVmClustersPage ==
    /\ pc = "list_vm_clusters"
    /\ \E resp \in Responses(provider, VmClustersRequest) :
        /\ resp.status = "ok"
        /\ provider' = Reveal(provider, VmClustersRequest, resp)
        /\ reqlog' = Logged(VmClustersRequest, resp)
        /\ all_clusters' = all_clusters \o resp.data
        /\ page' = resp.next_page
    /\ IF Truthy(page')
       THEN UNCHANGED <<pc, ki, vm_clusters, vm_clusters_details>>
       ELSE /\ vm_clusters' = all_clusters'
            /\ vm_clusters_details' = <<>>
            /\ ki' = 1
            /\ pc' = "for_cluster"
    /\ UNCHANGED <<previous, ci, ii, discovery, infraListing, infraDetail, cluster, iorm_config,
                   report, totals, outcome, stdout>>

\* faulty variant: the handler returns the clusters collected before the failure
ListVmClustersFail_Partial ==
    /\ pc = "list_vm_clusters"
    /\ \E resp \in Responses(provider, VmClustersRequest) :
        /\ resp.status # "ok"
        /\ provider' = Reveal(provider, VmClustersRequest, resp)
        /\ reqlog' = Logged(VmClustersRequest, resp)
    /\ vm_clusters' = all_clusters
    /\ vm_clusters_details' = <<>>
    /\ ki' = 1
    /\ pc' = "for_cluster"
    /\ UNCHANGED <<previous, page, ci, ii, discovery, infraListing, infraDetail, all_clusters, cluster,
                   iorm_config, report, totals, outcome, stdout>>

ListVmClustersFail ==
    /\ pc = "list_vm_clusters"
    /\ \E resp \in Responses(provider, VmClustersRequest) :
        Propagate(VmClustersRequest, resp, {"ServiceError"}, "Service Error")

\* fetch_all_data: the `cluster` of the running iteration of the innermost loop
cluster_item == vm_clusters[ki]

\* fetch_all_data: the innermost for loop takes the next VM cluster
ProcessVmCluster ==
    /\ pc = "for_cluster"
    /\ ki <= Len(vm_clusters)
    /\ stdout' = Append(stdout, Line("Processing VM cluster", <<cluster_item.display_name>>))
    /\ pc' = "get_vm_cluster"
    /\ UNCHANGED <<previous, provider, page, ci, ii, ki, discovery, infraListing, infraDetail,
                   clusterListing, clusterDetail, report, totals, outcome, reqlog>>

\* faulty variant: an infrastructure without VM clusters is left out of the entry
AppendInfrastructure_DropsChildless ==
    /\ pc = "for_cluster"
    /\ ki > Len(vm_clusters)
    /\ compartment_data' =
           IF vm_clusters_details = <<>>
           THEN compartment_data
           ELSE [compartment_data EXCEPT !.infrastructures =
                    Append(@, [details |-> infra_details,
                               vm_clusters |-> vm_clusters_details])]
    /\ ii' = ii + 1
    /\ pc' = "for_infra"
    /\ UNCHANGED <<previous, provider, page, ci, ki, discovery, infraListing, infraDetail,
                   clusterListing, clusterDetail, result, totals, outcome, reqlog, stdout>>

\* faulty variant: the infrastructure's entry is put in front of the earlier ones
AppendInfrastructure_Prepends ==
    /\ pc = "for_cluster"
    /\ ki > Len(vm_clusters)
    /\ compartment_data' =
           [compartment_data EXCEPT !.infrastructures =
                <<[details |-> infra_details, vm_clusters |-> vm_clusters_details]>> \o @]
    /\ ii' = ii + 1
    /\ pc' = "for_infra"
    /\ UNCHANGED <<previous, provider, page, ci, ki, discovery, infraListing, infraDetail,
                   clusterListing, clusterDetail, result, totals, outcome, reqlog, stdout>>

\* fetch_all_data: the innermost for loop is exhausted; the infrastructure's
\* entry is appended to compartment_data["infrastructures"]
AppendInfrastructure ==
    /\ pc = "for_cluster"
    /\ ki > Len(vm_clusters)
    /\ compartment_data' =
           [compartment_data EXCEPT !.infrastructures =
                Append(@, [details |-> infra_details, vm_clusters |-> vm_clusters_details])]
    /\ ii' = ii + 1
    /\ pc' = "for_infra"
    /\ UNCHANGED <<previous, provider, page, ci, ki, discovery, infraListing, infraDetail,
                   clusterListing, clusterDetail, result, totals, outcome, reqlog, stdout>>

VmClusterRequest == Request("get_vm_cluster", <<cluster_item.id>>, None, None)

\* get_vm_cluster_details: the mandatory base record
GetVmCluster ==
    /\ pc = "get_vm_cluster"
    /\ \E resp \in Responses(provider, VmClusterRequest) :
        /\ resp.status = "ok"
        /\ provider' = Reveal(provider, VmClusterRequest, resp)
        /\ reqlog' = Logged(VmClusterRequest, resp)
        /\ cluster' = resp.data
    /\ pc' = "get_vm_cluster_iorm_config"
    /\ UNCHANGED <<previous, page, ci, ii, ki, discovery, infraListing, infraDetail, clusterListing,
                   iorm_config, vm_clusters_details, report, totals, outcome, stdout>>

GetVmClusterFail ==
    /\ pc = "get_vm_cluster"
    /\ \E resp \in Responses(provider, VmClusterRequest) :
        Propagate(VmClusterRequest, resp, {"ServiceError"},
                  "Service Error fetching VM cluster details")

IormRequest == Request("get_vm_cluster_iorm_config", <<cluster_item.id>>, None, None)

\* get_vm_cluster_details: the optional IORM configuration; the bare except
\* turns any exception into None
GetIormConfig ==
    /\ pc = "get_vm_cluster_iorm_config"
    /\ \E resp \in Responses(provider, IormRequest) :
        /\ provider' = Reveal(provider, IormRequest, resp)
        /\ reqlog' = Logged(IormRequest, resp)
        /\ iorm_config' = IF resp.status = "ok" THEN resp.data ELSE None
    /\ pc' = "list_vm_cluster_patches"
    /\ UNCHANGED <<previous, page, ci, ii, ki, discovery, infraListing, infraDetail, clusterListing,
                   cluster, vm_clusters_details, report, totals, outcome, stdout>>

PatchesRequest == Request("list_vm_cluster_patches", <<cluster_item.id>>, None, None)

\* faulty variant: the list is not truncated
Slice_Whole(data, n) == data

\* Python's data[:n]
Slice(data, n) == SubSeq(data, 1, IF Len(data) < n THEN Len(data) ELSE n)

\* get_vm_cluster_details keeps the first PatchLimit patches
PatchLimit == 5

\* faulty variant: the VM cluster is not counted
GetPatches_Uncounted ==
    /\ pc = "list_vm_cluster_patches"
    /\ \E resp \in Responses(provider, PatchesRequest) :
        /\ provider' = Reveal(provider, PatchesRequest, resp)
        /\ reqlog' = Logged(PatchesRequest, resp)
        /\ vm_clusters_details' =
               Append(vm_clusters_details,
                      [cluster |-> cluster,
                       iorm_config |-> iorm_config,
                       patches |-> IF resp.status = "ok"
                                   THEN Slice(resp.data, PatchLimit)
                                   ELSE <<>>])
    /\ total_vm_clusters' = total_vm_clusters
    /\ ki' = ki + 1
    /\ pc' = "for_cluster"
    /\ UNCHANGED <<previous, page, ci, ii, discovery, infraListing, infraDetail, clusterListing,
                   cluster, iorm_config, report, total_infrastructures, outcome, stdout>>

\* get_vm_cluster_details: the optional patch list (any exception gives []),
\* the return of the details, and fetch_all_data's append and count
GetPatches ==
    /\ pc = "list_vm_cluster_patches"
    /\ \E resp \in Responses(provider, PatchesRequest) :
        /\ provider' = Reveal(provider, PatchesRequest, resp)
        /\ reqlog' = Logged(PatchesRequest, resp)
        /\ vm_clusters_details' =
               Append(vm_clusters_details,
                      [cluster |-> cluster,
                       iorm_config |-> iorm_config,
                       patches |-> IF resp.status = "ok"
                                   THEN Slice(resp.data, PatchLimit)
                                   ELSE <<>>])
    /\ total_vm_clusters' = total_vm_clusters + 1
    /\ ki' = ki + 1
    /\ pc' = "for_cluster"
    /\ UNCHANGED <<previous, page, ci, ii, discovery, infraListing, infraDetail, clusterListing,
                   cluster, iorm_config, report, total_infrastructures, outcome, stdout>>

\* faulty variant: a report without compartments is saved as well
MainNoData_Saves ==
    /\ pc = "returned"
    /\ returned.compartments = <<>>
    /\ stdout' = stdout \o <<Line("RESULTS", <<>>),
                             Line("No Exadata infrastructures found.", <<>>)>>
    /\ output_file' = JsonData(returned)
    /\ exit_code' = 0
    /\ pc' = "exit"
    /\ UNCHANGED <<previous, provider, page, ci, ii, ki, discovery, infraListing, infraDetail,
                   clusterListing, clusterDetail, report, totals, raised, returned, reqlog>>

\* main: fetch_all_data returned a report without compartments; main returns
MainNoData ==
    /\ pc = "returned"
    /\ returned.compartments = <<>>
    /\ stdout' = stdout \o <<Line("RESULTS", <<>>),
                             Line("No Exadata infrastructures found.", <<>>)>>
    /\ exit_code' = 0
    /\ pc' = "exit"
    /\ UNCHANGED <<previous, provider, page, ci, ii, ki, discovery, infraListing, infraDetail,
                   clusterListing, clusterDetail, report, totals, raised, returned,
                   output_file, reqlog>>

\* the display reads attributes of the records the provider returned; one
\* print of the display: the line it prints and the records it reads
RECURSIVE Flatten(_)
Flatten(ss) == IF ss = <<>> THEN <<>> ELSE Head(ss) \o Flatten(Tail(ss))

\* format_infrastructure_summary: the summary of one infrastructure, with
\* its OCPU INFO and UNALLOCATED sections when those records are there
format_infrastructure_summary(infra_data) ==
    LET infra_rec == infra_data.infrastructure
        ocpu_rec == infra_data.ocpu_info
        unallocated_rec == infra_data.unallocated_resources
    IN [line |-> Line("INFRASTRUCTURE",
                      <<infra_rec.display_name, infra_rec.id,
                        ocpu_rec # None, unallocated_rec # None>>),
        reads |-> <<infra_rec>>
                  \o (IF ocpu_rec # None THEN <<ocpu_rec>> ELSE <<>>)
                  \o (IF unallocated_rec # None THEN <<unallocated_rec>> ELSE <<>>)]

\* format_vm_cluster_summary: the summary of one VM cluster, with its IORM
\* section when that record is there
format_vm_cluster_summary(cluster_data) ==
    LET cluster_rec == cluster_data.cluster
        iorm == cluster_data.iorm_config
    IN [line |-> Line("VM CLUSTER",
                      <<cluster_rec.display_name, cluster_rec.id, iorm # None>>),
        reads |-> <<cluster_rec>> \o (IF iorm # None THEN <<iorm>> ELSE <<>>)]

\* main: the display of the data fetch_all_data returned, print by print
Display(data) ==
    Flatten([c \in 1..Len(data.compartments) |->
        LET cd == data.compartments[c]
        IN <<[line |-> Line("COMPARTMENT", <<cd.compartment_name>>), reads |-> <<>>],
             [line |-> Line("OCID", <<cd.compartment_id>>), reads |-> <<>>]>>
           \o Flatten([i \in 1..Len(cd.infrastructures) |->
                 LET infra_data == cd.infrastructures[i]
                 IN <<format_infrastructure_summary(infra_data.details)>>
                    \o (IF infra_data.vm_clusters # <<>>
                        THEN <<[line |-> Line("VM CLUSTERS", <<Len(infra_data.vm_clusters)>>),
                                reads |-> <<>>]>>
                             \o [k \in 1..Len(infra_data.vm_clusters) |->
                                    format_vm_cluster_summary(infra_data.vm_clusters[k])]
                        ELSE <<[line |-> Line("No VM clusters found for this infrastructure.",
                                              <<>>),
                                reads |-> <<>>]>>)])])

\* the lines of the first n prints of the display
Displayed(data, n) == [j \in 1..n |-> Display(data)[j].line]

DisplayedAll(data) == Displayed(data, Len(Display(data)))

\* main: the report is displayed and saved to the output file
MainSave ==
    /\ pc = "returned"
    /\ returned.compartments # <<>>
    /\ stdout' = stdout \o <<Line("RESULTS", <<>>)>> \o DisplayedAll(returned)
                 \o <<Line("Saving raw data", <<>>),
                      Line("Data saved successfully!", <<>>)>>
    /\ output_file' = JsonData(returned)
    /\ exit_code' = 0
    /\ pc' = "exit"
    /\ UNCHANGED <<previous, provider, page, ci, ii, ki, discovery, infraListing, infraDetail,
                   clusterListing, clusterDetail, report, totals, raised, returned, reqlog>>

\* main: a summary of the display reads an attribute that the record does
\* not have.  Which attributes the provider's records carry is the
\* provider's choice: any print that reads a record can raise AttributeError.
\* The prints before it are on stdout, the summary itself is not; main's
\* handler prints the error and exits with status 1 before the output file
\* is opened
MainDisplayFail ==
    /\ pc = "returned"
    /\ returned.compartments # <<>>
    /\ \E n \in 1..Len(Display(returned)) :
          /\ Display(returned)[n].reads # <<>>
          /\ stdout' = stdout \o <<Line("RESULTS", <<>>)>> \o Displayed(returned, n - 1)
                       \o <<Line("Error occurred", <<"AttributeError", {}>>)>>
    /\ exit_code' = 1
    /\ pc' = "exit"
    /\ UNCHANGED <<previous, provider, page, ci, ii, ki, discovery, infraListing, infraDetail,
                   clusterListing, clusterDetail, report, totals, raised, returned,
                   output_file, reqlog>>

\* an output file whose writing broke off: the document, cut short
Truncated(doc) == [truncated |-> doc]

\* main: the report is displayed and json_data is built (it reads only
\* attributes the display has read), then open(output_file, 'w') or json.dump
\* raises an OSError: when open raises the file is left as it was, when the
\* writing raises the file is there, cut short.  main's handler prints the
\* error and exits with status 1
MainSaveFail ==
    /\ pc = "returned"
    /\ returned.compartments # <<>>
    /\ stdout' = stdout \o <<Line("RESULTS", <<>>)>> \o DisplayedAll(returned)
                 \o <<Line("Saving raw data", <<>>),
                      Line("Error occurred", <<"OSError", {}>>)>>
    /\ output_file' \in {output_file, Truncated(JsonData(returned))}
    /\ exit_code' = 1
    /\ pc' = "exit"
    /\ UNCHANGED <<previous, provider, page, ci, ii, ki, discovery, infraListing, infraDetail,
                   clusterListing, clusterDetail, report, totals, raised, returned, reqlog>>

Next ==
    \/ Construct
    \/ ConstructFail
    \/ GetTenancy
    \/ GetTenancyFail
    \/ ListCompartmentsPage
    \/ ListCompartmentsFail
    \/ ScanCompartment
    \/ ReturnResult
    \/ ListInfrastructuresPage
    \/ ListInfrastructuresFail
    \/ ProcessInfrastructure
    \/ AppendCompartment
    \/ GetInfrastructure
    \/ GetInfrastructureFail
    \/ GetOcpus
    \/ GetUnallocated
    \/ ListVmClustersPage
    \/ ListVmClustersFail
    \/ ProcessVmCluster
    \/ AppendInfrastructure
    \/ GetVmCluster
    \/ GetVmClusterFail
    \/ GetIormConfig
    \/ GetPatches
    \/ MainNoData
    \/ MainSave
    \/ MainDisplayFail
    \/ MainSaveFail

Spec == Init /\ [][Next]_vars

\* the program has ended and is started again: a new process enters main
\* against the same provider dataset.  The output file stays on disk; the
\* variables of fetch_all_data are left as they were, since the code assigns
\* each of them before it reads it
Rerun ==
    /\ pc = "exit"
    /\ Len(previous) < MaxRuns - 1
    /\ previous' = Append(previous, returned)
    /\ pc' = "main"
    /\ raised' = None
    /\ returned' = None
    /\ exit_code' = None
    /\ reqlog' = <<>>
    /\ stdout' = <<>>
    /\ UNCHANGED <<provider, page, ci, ii, ki, discovery, infraListing, infraDetail,
                   clusterListing, clusterDetail, report, totals, output_file>>

NextRerun == Next \/ Rerun

SpecRerun == Init /\ [][NextRerun]_vars

(***************************************************************************)
(* Vocabulary of the properties.                                           *)
(***************************************************************************)
MandatoryOps == {"get_exadata_infrastructure", "get_vm_cluster"}

InfraOptionalOps ==
    {"get_exadata_infrastructure_ocpus", "get_exadata_infrastructure_un_allocated_resources"}

ClusterOptionalOps == {"get_vm_cluster_iorm_config", "list_vm_cluster_patches"}

OptionalOps == InfraOptionalOps \cup ClusterOptionalOps

Failed(entry) == entry.resp.status # "ok"

Range(seq) == {seq[i] : i \in 1..Len(seq)}

\* the items the dataset holds for a listing: the pages from request `first`
\* on, following the cursors, as far as they are revealed
RECURSIVE Chain(_, _)
Chain(p, first) ==
    IF first \notin DOMAIN p \/ p[first].status # "ok"
    THEN <<>>
    ELSE p[first].data \o (IF p[first].next_page = None
                           THEN <<>>
                           ELSE Chain(p, [first EXCEPT !.page = p[first].next_page]))

InfrastructuresOf(comp_id) ==
    Chain(provider,
          Request("list_exadata_infrastructures", <<comp_id>>, Str("DISPLAYNAME"), None))

VmClustersOf(comp_id, infra_id) ==
    Chain(provider,
          Request("list_vm_clusters", <<comp_id, infra_id>>, Str("DISPLAYNAME"), None))

\* the Report: what fetch_all_data returned
HasReport == returned # None

\* the infrastructure entries and the VM cluster entries of a report
InfraEntries(rep) ==
    UNION {Range(rep.compartments[c].infrastructures) : c \in 1..Len(rep.compartments)}

ClusterEntries(rep) == UNION {Range(e.vm_clusters) : e \in InfraEntries(rep)}

(***************************************************************************)
(* C1: a failing listing request (list_compartments,                       *)
(* list_exadata_infrastructures or list_vm_clusters, on any page) ends the *)
(* run with the error and without a Report: fetch_all_data has returned    *)
(* nothing, the exception that left it is the one the request raised, and  *)
(* the process exits with a non-zero status.                               *)
(***************************************************************************)
C1_ListingFailureIsFatal ==
    \A i \in 1..Len(reqlog) :
        (reqlog[i].req.op \in ListOps /\ Failed(reqlog[i]))
        => /\ ~HasReport
           /\ raised = [type |-> reqlog[i].resp.status,
                        names |-> reqlog[i].resp.names,
                        request |-> reqlog[i].req]
           /\ pc = "exit"
           /\ exit_code # 0

\* a listing fails after an earlier container was fully assembled
C1_Witness ==
    /\ \E i \in 1..Len(reqlog) : reqlog[i].req.op \in ListOps /\ Failed(reqlog[i])
    /\ result # None
    /\ result.compartments # <<>>

(***************************************************************************)
(* C3: a failing mandatory base-record fetch (get_exadata_infrastructure   *)
(* or get_vm_cluster) ends the run with the error and without a Report,    *)
(* however much was assembled before.                                      *)
(***************************************************************************)
C3_MandatoryFailureIsFatal ==
    \A i \in 1..Len(reqlog) :
        (reqlog[i].req.op \in MandatoryOps /\ Failed(reqlog[i]))
        => /\ ~HasReport
           /\ raised = [type |-> reqlog[i].resp.status,
                        names |-> reqlog[i].resp.names,
                        request |-> reqlog[i].req]
           /\ pc = "exit"
           /\ exit_code # 0

\* a base-record fetch fails after another resource of the container was attached
C3_Witness ==
    /\ \E i \in 1..Len(reqlog) : reqlog[i].req.op \in MandatoryOps /\ Failed(reqlog[i])
    /\ compartment_data # None
    /\ compartment_data.infrastructures # <<>>

\* the response of the dataset to the request `op` for resource id
Answer(op, id) == provider[Request(op, <<id>>, None, None)]

\* an optional sub-record as the dataset answers for it: None when the request fails
Present(op, id) == IF Answer(op, id).status = "ok" THEN Answer(op, id).data ELSE None

\* the detail of infrastructure id as its own requests alone determine it
OwnInfraDetails(id) ==
    [infrastructure |-> Answer("get_exadata_infrastructure", id).data,
     ocpu_info |-> Present("get_exadata_infrastructure_ocpus", id),
     unallocated_resources |-> Present("get_exadata_infrastructure_un_allocated_resources", id)]

\* the detail of VM cluster id as its own requests alone determine it
OwnClusterDetails(id) ==
    LET listed == Answer("list_vm_cluster_patches", id)
        n == IF Len(listed.data) < PatchLimit THEN Len(listed.data) ELSE PatchLimit
    IN [cluster |-> Answer("get_vm_cluster", id).data,
        iorm_config |-> Present("get_vm_cluster_iorm_config", id),
        patches |-> IF listed.status = "ok" THEN SubSeq(listed.data, 1, n) ELSE <<>>]

(***************************************************************************)
(* C2: a failing optional sub-record request (OCPU record, unallocated     *)
(* resources, IORM configuration, patch list), whatever it raises, never   *)
(* ends the run; the Report holds the resource or child it was made for,   *)
(* and every entry of the Report is determined by the answers to its own   *)
(* requests alone: base record as fetched, a failed optional field None    *)
(* (patches: the empty list), so no failure changes a sibling's entry.     *)
(***************************************************************************)
C2_OptionalFailureAbsorbed ==
    /\ raised # None => raised.request.op \notin OptionalOps
    /\ HasReport =>
        /\ \A i \in 1..Len(reqlog) :
              (reqlog[i].req.op \in InfraOptionalOps /\ Failed(reqlog[i]))
              => \E e \in InfraEntries(returned) :
                    e.details.infrastructure.id = reqlog[i].req.args[1]
        /\ \A i \in 1..Len(reqlog) :
              (reqlog[i].req.op \in ClusterOptionalOps /\ Failed(reqlog[i]))
              => \E k \in ClusterEntries(returned) : k.cluster.id = reqlog[i].req.args[1]
        /\ \A e \in InfraEntries(returned) :
              e.details = OwnInfraDetails(e.details.infrastructure.id)
        /\ \A k \in ClusterEntries(returned) : k = OwnClusterDetails(k.cluster.id)

\* a Report with two infrastructures, one of which had an optional request fail
C2_Witness ==
    /\ HasReport
    /\ \E i \in 1..Len(reqlog) : reqlog[i].req.op \in OptionalOps /\ Failed(reqlog[i])
    /\ Cardinality(InfraEntries(returned)) >= 2

(***************************************************************************)
(* C4: the container entries of the Report are the discovered containers   *)
(* whose infrastructure listing is not empty, in discovery order, each     *)
(* with at least one infrastructure entry.                                 *)
(***************************************************************************)
C4_ReportContainers ==
    HasReport =>
        LET populated == SelectSeq(compartments_to_scan,
                                   LAMBDA c : InfrastructuresOf(c.id) # <<>>)
        IN /\ Len(returned.compartments) = Len(populated)
           /\ \A i \in 1..Len(populated) :
                 /\ returned.compartments[i].compartment_id = populated[i].id
                 /\ returned.compartments[i].compartment_name = populated[i].name
                 /\ returned.compartments[i].infrastructures # <<>>

\* a Report of a run that discovered an empty container before a populated one
C4_Witness ==
    /\ HasReport
    /\ \E i, j \in 1..Len(compartments_to_scan) :
          /\ i < j
          /\ InfrastructuresOf(compartments_to_scan[i].id) = <<>>
          /\ InfrastructuresOf(compartments_to_scan[j].id) # <<>>

(***************************************************************************)
(* C5: every infrastructure a container's listing returned is an entry of  *)
(* that container in the Report, at its position in the listing; when its  *)
(* VM cluster listing is empty the entry carries an empty vm_clusters.     *)
(***************************************************************************)
C5_ChildlessResourceKept ==
    HasReport =>
        \A c \in 1..Len(returned.compartments) :
            LET entry == returned.compartments[c]
                listed == InfrastructuresOf(entry.compartment_id)
            IN /\ Len(entry.infrastructures) = Len(listed)
               /\ \A i \in 1..Len(listed) :
                     /\ entry.infrastructures[i].details.infrastructure.id = listed[i].id
                     /\ VmClustersOf(entry.compartment_id, listed[i].id) = <<>>
                        => entry.infrastructures[i].vm_clusters = <<>>

\* a Report with a childless infrastructure next to one that has a VM cluster
C5_Witness ==
    /\ HasReport
    /\ \E c \in 1..Len(returned.compartments) :
          \E e1, e2 \in Range(returned.compartments[c].infrastructures) :
              e1.vm_clusters = <<>> /\ e2.vm_clusters # <<>>

LexLess(a, b) == LexLeq(a, b) /\ a # b

\* the infrastructure names and the VM cluster names of the Report's entries
InfraNames(entry) ==
    [i \in 1..Len(entry.infrastructures) |->
        entry.infrastructures[i].details.infrastructure.display_name]

ClusterNames(e) == [k \in 1..Len(e.vm_clusters) |-> e.vm_clusters[k].cluster.display_name]

Ascending(names) == \A i \in 1..Len(names) - 1 : LexLeq(names[i], names[i + 1])

StrictlyAscending(names) == \A i \in 1..Len(names) - 1 : LexLess(names[i], names[i + 1])

ResourcesAndChildrenAscending ==
    \A c \in 1..Len(returned.compartments) :
        /\ Ascending(InfraNames(returned.compartments[c]))
        /\ \A e \in Range(returned.compartments[c].infrastructures) :
              Ascending(ClusterNames(e))

(***************************************************************************)
(* C6: the container entries of the Report are in strictly ascending       *)
(* display-name order, and the infrastructure entries of each              *)
(* container and the VM cluster entries of each infrastructure are in      *)
(* ascending display-name order.  It is stated for the runs whose          *)
(* discovery returned no identifier twice, so that a violation does not    *)
(* rest on a repeated container (C7).                                      *)
(***************************************************************************)
C6_AllLevelsSorted ==
    (/\ HasReport
     /\ \A i, j \in 1..Len(compartments_to_scan) :
           i # j => compartments_to_scan[i].id # compartments_to_scan[j].id)
    => /\ StrictlyAscending([c \in 1..Len(returned.compartments) |->
                                returned.compartments[c].compartment_name])
       /\ ResourcesAndChildrenAscending

(***************************************************************************)
(* C7: the containers discovery returns carry no identifier twice.         *)
(***************************************************************************)
C7_NoDuplicateContainers ==
    \A i, j \in 1..Len(compartments_to_scan) :
        i # j => compartments_to_scan[i].id # compartments_to_scan[j].id

\* what list_compartments listed, all pages
ListedCompartments == Chain(provider, Request("list_compartments", <<TenancyId>>, None, None))

ActiveListed == SelectSeq(ListedCompartments, LAMBDA c : c.lifecycle_state = "ACTIVE")

DiscoveryDone == compartments_to_scan # <<>>

(***************************************************************************)
(* C8: discovery returns the tenancy first, with lifecycle state ACTIVE    *)
(* and is_root set, followed by exactly the listed compartments whose      *)
(* lifecycle state is ACTIVE, in the order listed; only the tenancy and    *)
(* compartments listed as ACTIVE are scanned for infrastructures.          *)
(***************************************************************************)
C8_DiscoveryResult ==
    /\ DiscoveryDone =>
        /\ compartments_to_scan[1] = [id |-> TenancyId,
                                      name |-> provider[TenancyRequest].data.name,
                                      lifecycle_state |-> "ACTIVE",
                                      is_root |-> TRUE]
        /\ Len(compartments_to_scan) = 1 + Len(ActiveListed)
        /\ \A i \in 1..Len(ActiveListed) :
              compartments_to_scan[i + 1] = [id |-> ActiveListed[i].id,
                                             name |-> ActiveListed[i].name,
                                             lifecycle_state |-> "ACTIVE",
                                             is_root |-> FALSE]
    /\ \A i \in 1..Len(reqlog) :
          reqlog[i].req.op = "list_exadata_infrastructures"
          => reqlog[i].req.args[1] \in {TenancyId} \cup {c.id : c \in Range(ActiveListed)}

\* a complete run whose listing held the tenancy itself as DELETED, and an
\* ACTIVE compartment
C8_Witness ==
    /\ HasReport
    /\ \E c \in Range(ListedCompartments) : c.id = TenancyId /\ c.lifecycle_state = "DELETED"
    /\ \E c \in Range(ListedCompartments) : c.id # TenancyId /\ c.lifecycle_state = "ACTIVE"

SameListing(r1, r2) == r1.op = r2.op /\ r1.args = r2.args /\ r1.sort_by = r2.sort_by

\* the positions at which `infrastructures` is the listing of `compartment`
InfraLoopPcs ==
    {"for_infra", "get_exadata_infrastructure", "get_exadata_infrastructure_ocpus",
     "get_exadata_infrastructure_un_allocated_resources", "list_vm_clusters", "for_cluster",
     "get_vm_cluster", "get_vm_cluster_iorm_config", "list_vm_cluster_patches"}

\* the positions at which `vm_clusters` is the listing of `infra`
ClusterLoopPcs ==
    {"for_cluster", "get_vm_cluster", "get_vm_cluster_iorm_config", "list_vm_cluster_patches"}

(***************************************************************************)
(* C9: in every paginated listing a request with a cursor directly follows *)
(* the response of the same listing that returned that cursor (so a        *)
(* listing starts with the null cursor), a response with a cursor is       *)
(* followed by the request of the same listing with exactly that cursor,   *)
(* the loop is left after the first response without a cursor (the program *)
(* is out of the loop, or has entered a listing afresh with the null       *)
(* cursor and an empty list), and the list handed to the caller is the     *)
(* concatenation of the items of all pages in page order, pages without    *)
(* items included.  A running listing can always take its next step, and   *)
(* each step moves it one page further along the provider's chain (the     *)
(* cursor in hand is the one of the page after those already read), so it  *)
(* ends when the chain does.                                               *)
(***************************************************************************)
C9_Pagination ==
    /\ \A i \in 1..Len(reqlog) :
        LET e == reqlog[i]
        IN e.req.op \in ListOps =>
            /\ e.req.page # None
               => /\ i > 1
                  /\ SameListing(reqlog[i - 1].req, e.req)
                  /\ reqlog[i - 1].resp.status = "ok"
                  /\ reqlog[i - 1].resp.next_page = e.req.page
            /\ (e.resp.status = "ok" /\ e.resp.next_page # None)
               => IF i < Len(reqlog)
                  THEN reqlog[i + 1].req = [e.req EXCEPT !.page = e.resp.next_page]
                  ELSE pc = e.req.op /\ page = e.resp.next_page
            /\ (e.resp.status = "ok" /\ e.resp.next_page = None /\ i = Len(reqlog))
               => \/ pc # e.req.op
                  \/ /\ pc = "list_exadata_infrastructures"
                     /\ page = None
                     /\ all_infrastructures = <<>>
                  \/ /\ pc = "list_vm_clusters"
                     /\ page = None
                     /\ all_clusters = <<>>
    /\ DiscoveryDone
       => [i \in 1..Len(compartments_to_scan) - 1 |-> compartments_to_scan[i + 1].id]
          = [i \in 1..Len(ActiveListed) |-> ActiveListed[i].id]
    /\ pc \in InfraLoopPcs => infrastructures = InfrastructuresOf(compartment.id)
    /\ pc \in ClusterLoopPcs => vm_clusters = VmClustersOf(compartment.id, infra_item.id)
    /\ pc \in ListOps => /\ ENABLED Next
                         /\ PageIndex(page) = 1 + Cardinality({k \in DOMAIN provider :
                                /\ k.op = pc
                                /\ provider[k].status = "ok"
                                /\ provider[k].next_page # None
                                /\ PageIndex(provider[k].next_page) <= PageIndex(page)
                                /\ k.args = (IF pc = "list_compartments"
                                             THEN CompartmentsRequest.args
                                             ELSE IF pc = "list_exadata_infrastructures"
                                             THEN InfrastructuresRequest.args
                                             ELSE VmClustersRequest.args)})

\* a listing of two pages was handed to the caller: the first page had no
\* items and carried a cursor, the second had an item
C9_Witness ==
    /\ pc \in InfraLoopPcs
    /\ infrastructures # <<>>
    /\ \E i \in 1..Len(reqlog) :
          /\ reqlog[i].req = Request("list_exadata_infrastructures", <<compartment.id>>,
                                     Str("DISPLAYNAME"), None)
          /\ reqlog[i].resp.status = "ok"
          /\ reqlog[i].resp.data = <<>>
          /\ reqlog[i].resp.next_page # None

(***************************************************************************)
(* C10: when the request for a page of a listing fails, no request is      *)
(* issued after it, the caller gets the error, and none of the items of    *)
(* the earlier pages of that listing reach the caller's list.              *)
(***************************************************************************)
C10_ListingAllOrNothing ==
    \A i \in 1..Len(reqlog) :
        LET e == reqlog[i]
        IN (e.req.op \in ListOps /\ Failed(e)) =>
            /\ i = Len(reqlog)
            /\ ~HasReport
            /\ raised # None
            /\ raised.request = e.req
            /\ e.req.op = "list_compartments" => compartments_to_scan = <<>>
            /\ e.req.op = "list_exadata_infrastructures"
               => \A item \in EarlierItems(provider, e.req) : item \notin Range(infrastructures)
            /\ e.req.op = "list_vm_clusters"
               => \A item \in EarlierItems(provider, e.req) : item \notin Range(vm_clusters)

\* the request for the second page of a listing failed after a first page with an item
C10_Witness ==
    \E i \in 1..Len(reqlog) :
        /\ reqlog[i].req.op \in ListOps
        /\ Failed(reqlog[i])
        /\ reqlog[i].req.page # None
        /\ EarlierItems(provider, reqlog[i].req) # {}

\* every VM cluster detail built so far: those of the running infrastructure,
\* those attached to the running container's entry, and those of the report
ClusterDetailsBuilt ==
    Range(vm_clusters_details)
    \cup (IF compartment_data = None
          THEN {}
          ELSE UNION {Range(e.vm_clusters) : e \in Range(compartment_data.infrastructures)})
    \cup (IF result = None THEN {} ELSE ClusterEntries(result))
    \cup (IF HasReport THEN ClusterEntries(returned) ELSE {})

(***************************************************************************)
(* C11: the patch list in the detail of every VM cluster is the prefix of  *)
(* length min(5, n) of the n entries list_vm_cluster_patches returned for  *)
(* that cluster, in the returned order; its length is between 0 and 5 and  *)
(* is n when n is less than 5.                                             *)
(***************************************************************************)
C11_PatchesArePrefixOfFive ==
    \A k \in ClusterDetailsBuilt :
        LET listed == Answer("list_vm_cluster_patches", k.cluster.id)
            n == Len(listed.data)
        IN /\ Len(k.patches) \in 0..5
           /\ listed.status = "ok"
              => /\ Len(k.patches) = (IF n < 5 THEN n ELSE 5)
                 /\ \A i \in 1..Len(k.patches) : k.patches[i] = listed.data[i]
                 /\ n < 5 => Len(k.patches) = n

\* the Report holds a VM cluster for which the provider returned more than
\* five patches, and one for which it returned between one and four
C11_Witness ==
    /\ HasReport
    /\ \E k \in ClusterEntries(returned) :
          /\ Answer("list_vm_cluster_patches", k.cluster.id).status = "ok"
          /\ Len(Answer("list_vm_cluster_patches", k.cluster.id).data) > 5
    /\ \E k \in ClusterEntries(returned) :
          /\ Answer("list_vm_cluster_patches", k.cluster.id).status = "ok"
          /\ Len(Answer("list_vm_cluster_patches", k.cluster.id).data) \in 1..4

RECURSIVE SumSeq(_)
SumSeq(s) == IF s = <<>> THEN 0 ELSE Head(s) + SumSeq(Tail(s))

\* the number of infrastructure entries and of VM cluster entries of a report
ResourceCount(rep) ==
    SumSeq([c \in 1..Len(rep.compartments) |-> Len(rep.compartments[c].infrastructures)])

ChildCount(rep) ==
    SumSeq([c \in 1..Len(rep.compartments) |->
               SumSeq([i \in 1..Len(rep.compartments[c].infrastructures) |->
                          Len(rep.compartments[c].infrastructures[i].vm_clusters)])])

(***************************************************************************)
(* C12: when fetch_all_data has returned its Report, the counter of        *)
(* infrastructures is the number of infrastructure entries summed over the *)
(* Report's container entries, the counter of VM clusters is the number of *)
(* VM cluster entries summed over all infrastructure entries, and these    *)
(* two numbers are what the run reports in its "Total" line.               *)
(***************************************************************************)
C12_TotalsMatchReport ==
    HasReport =>
        /\ total_infrastructures = ResourceCount(returned)
        /\ total_vm_clusters = ChildCount(returned)
        /\ \E i \in 1..Len(stdout) : stdout[i].text = "Total"
        /\ \A i \in 1..Len(stdout) :
              stdout[i].text = "Total"
              => stdout[i].args = <<ResourceCount(returned), ChildCount(returned)>>

\* a Report with one container entry whose single infrastructure has two VM
\* clusters: totals (1, 2)
C12_Witness ==
    /\ HasReport
    /\ Len(returned.compartments) = 1
    /\ total_infrastructures = 1
    /\ total_vm_clusters = 2

\* the lines an error prints on its way out: the handler's and main's
ErrorTexts ==
    {"Service Error", "Request Error", "Service Error fetching infrastructure details",
     "Service Error fetching VM cluster details", "Error occurred"}

ErrorLines == {i \in 1..Len(stdout) : stdout[i].text \in ErrorTexts}

(***************************************************************************)
(* C13: when get_exadata_infrastructure fails for an infrastructure, the   *)
(* error that reaches the caller names the identifier of that              *)
(* infrastructure: the exception that left fetch_all_data names it in its  *)
(* text, and so does a line the error printed.                             *)
(***************************************************************************)
C13_ErrorNamesResource ==
    \A i \in 1..Len(reqlog) :
        (reqlog[i].req.op = "get_exadata_infrastructure" /\ Failed(reqlog[i]))
        => /\ raised # None
           /\ reqlog[i].req.args[1] \in raised.names
           /\ \E l \in ErrorLines : reqlog[i].req.args[1] \in stdout[l].args[2]

\* the run met a fatal error: the configuration failed to load or validate,
\* or a request other than an optional sub-record request failed
ConfigFailed ==
    \E i \in 1..Len(stdout) :
        stdout[i].text = "Error occurred" /\ stdout[i].args[1] = "ConfigError"

FatalError ==
    \/ ConfigFailed
    \/ \E i \in 1..Len(reqlog) : Failed(reqlog[i]) /\ reqlog[i].req.op \notin OptionalOps

\* the display failed on an attribute a record does not have
DisplayFailed ==
    \E i \in 1..Len(stdout) :
        stdout[i].text = "Error occurred" /\ stdout[i].args[1] = "AttributeError"

\* writing the output file failed
SaveFailed ==
    \E i \in 1..Len(stdout) :
        stdout[i].text = "Error occurred" /\ stdout[i].args[1] = "OSError"

\* the output file is touched only after fetch_all_data has returned the
\* complete Report: every discovered container has been scanned
WrittenAfterCompleteReport ==
    output_file # None
    => /\ HasReport
       /\ returned = result
       /\ ci > Len(compartments_to_scan)
       /\ ~FatalError

\* after a fatal error the process has exited with a non-zero status and
\* the output file is not written
FatalErrorWritesNothing ==
    FatalError
    => /\ pc = "exit"
       /\ exit_code # 0
       /\ output_file = None
       /\ ~HasReport
       /\ ~DisplayFailed
       /\ ~SaveFailed

(***************************************************************************)
(* C14, as stated: the output file is persisted only after the whole       *)
(* traversal has returned a complete Report; on a fatal error of the       *)
(* configuration, the discovery, a listing or a mandatory detail fetch the *)
(* process ends with a non-zero exit status and the output file is not     *)
(* written; a run without such a fatal error ends with exit status 0.      *)
(***************************************************************************)
C14_NoFatalErrorExitsZero ==
    /\ WrittenAfterCompleteReport
    /\ FatalErrorWritesNothing
    /\ (pc = "exit" /\ ~FatalError) => exit_code = 0

(***************************************************************************)
(* C14, amended: the output file is touched only after fetch_all_data has  *)
(* returned the complete Report, and what is written is the document of    *)
(* that Report (cut short if the writing itself broke off); after a fatal  *)
(* error of the configuration, the discovery, a listing or a mandatory     *)
(* detail fetch the process has exited with a non-zero status and the      *)
(* output file is not written; a run that ends without such an error and   *)
(* without an error in displaying or saving the Report ends with exit      *)
(* status 0 and, when it wrote the file, wrote it in full; an error in     *)
(* displaying the Report ends the run with a non-zero status and the file  *)
(* unwritten; an error in saving it ends the run with a non-zero status.   *)
(***************************************************************************)
C14_PersistOnlyCompleteReport ==
    /\ WrittenAfterCompleteReport
    /\ output_file # None
       => output_file \in {JsonData(returned), Truncated(JsonData(returned))}
    /\ FatalErrorWritesNothing
    /\ (pc = "exit" /\ ~FatalError /\ ~DisplayFailed /\ ~SaveFailed)
       => /\ exit_code = 0
          /\ output_file # None => output_file = JsonData(returned)
    /\ DisplayFailed
       => /\ pc = "exit"
          /\ exit_code # 0
          /\ HasReport
          /\ output_file = None
          /\ ~SaveFailed
    /\ SaveFailed
       => /\ pc = "exit"
          /\ exit_code # 0
          /\ HasReport
          /\ output_file \in {None, Truncated(JsonData(returned))}

\* a fatal error ended a run that had already assembled a container entry
C14_Witness ==
    /\ pc = "exit"
    /\ raised # None
    /\ result # None
    /\ result.compartments # <<>>
    /\ output_file = None

(***************************************************************************)
(* C15: runs against the same provider dataset yield the same Report:      *)
(* whenever fetch_all_data has returned a Report in this run and in an     *)
(* earlier run, the two Reports are equal, and so are the documents saved  *)
(* from them.                                                              *)
(***************************************************************************)
C15_SameDatasetSameReport ==
    \A r \in 1..Len(previous) :
        (HasReport /\ previous[r] # None)
        => /\ returned = previous[r]
           /\ JsonData(returned) = JsonData(previous[r])

\* the second run has returned its Report; the first run returned one with a
\* container entry and met a failing optional request
C15_Witness ==
    /\ HasReport
    /\ previous # <<>>
    /\ previous[1] # None
    /\ previous[1].compartments # <<>>
    /\ \E k \in DOMAIN provider : k.op \in OptionalOps /\ provider[k].status # "ok"

\* every infrastructure detail built so far
InfraDetailsBuilt ==
    ({infra_details} \ {None})
    \cup (IF compartment_data = None
          THEN {}
          ELSE {e.details : e \in Range(compartment_data.infrastructures)})
    \cup (IF result = None THEN {} ELSE {e.details : e \in InfraEntries(result)})
    \cup (IF HasReport THEN {e.details : e \in InfraEntries(returned)} ELSE {})

\* after the successful base-record request at position i of the log, the
\* two optional requests `first` and `second` for the same resource follow,
\* as far as the run has got, whatever the outcome of `first`
OptionalsAttempted(i, first, second) ==
    LET id == reqlog[i].req.args[1]
    IN /\ IF i = Len(reqlog)
          THEN pc = first
          ELSE reqlog[i + 1].req = Request(first, <<id>>, None, None)
       /\ i + 1 <= Len(reqlog)
          => IF i + 1 = Len(reqlog)
             THEN pc = second
             ELSE reqlog[i + 2].req = Request(second, <<id>>, None, None)

(***************************************************************************)
(* C16: once the base record of an infrastructure (of a VM cluster) has    *)
(* been fetched, both of its optional requests are issued, the second      *)
(* whether or not the first failed; and each optional field of a detail    *)
(* depends on its own request alone: ocpu_info, unallocated_resources and  *)
(* iorm_config are None exactly when their own request failed, and patches *)
(* is empty when its own request failed and holds entries whenever its own *)
(* request returned some.                                                  *)
(***************************************************************************)
C16_OptionalRecordsIndependent ==
    /\ \A i \in 1..Len(reqlog) :
          (reqlog[i].req.op = "get_exadata_infrastructure" /\ ~Failed(reqlog[i]))
          => OptionalsAttempted(i, "get_exadata_infrastructure_ocpus",
                                "get_exadata_infrastructure_un_allocated_resources")
    /\ \A i \in 1..Len(reqlog) :
          (reqlog[i].req.op = "get_vm_cluster" /\ ~Failed(reqlog[i]))
          => OptionalsAttempted(i, "get_vm_cluster_iorm_config", "list_vm_cluster_patches")
    /\ \A d \in InfraDetailsBuilt :
          LET id == d.infrastructure.id
          IN /\ d.ocpu_info = None
                <=> Answer("get_exadata_infrastructure_ocpus", id).status # "ok"
             /\ d.unallocated_resources = None
                <=> Answer("get_exadata_infrastructure_un_allocated_resources", id).status # "ok"
    /\ \A k \in ClusterDetailsBuilt :
          LET id == k.cluster.id
              listed == Answer("list_vm_cluster_patches", id)
          IN /\ k.iorm_config = None <=> Answer("get_vm_cluster_iorm_config", id).status # "ok"
             /\ listed.status # "ok" => k.patches = <<>>
             /\ (listed.status = "ok" /\ listed.data # <<>>) => k.patches # <<>>

\* the Report holds an infrastructure whose OCPU request failed and whose
\* unallocated-resources request succeeded, next to one with both records
C16_Witness ==
    /\ HasReport
    /\ \E e \in InfraEntries(returned) :
          e.details.ocpu_info = None /\ e.details.unallocated_resources # None
    /\ \E e \in InfraEntries(returned) :
          e.details.ocpu_info # None /\ e.details.unallocated_resources # None

(***************************************************************************)
(* C17: when loading or validating the configuration fails in the          *)
(* constructor, the run ends before the traversal begins: no request has   *)
(* been issued to the provider, nothing of the dataset has been read,      *)
(* fetch_all_data has neither returned nor raised, and the process has     *)
(* exited with a non-zero status.                                          *)
(***************************************************************************)
C17_ConfigErrorBeforeTraversal ==
    ConfigFailed
    => /\ reqlog = <<>>
       /\ provider = <<>>
       /\ pc = "exit"
       /\ exit_code # 0
       /\ raised = None
       /\ ~HasReport
       /\ result = None
       /\ output_file = None

\* the constructor failed and the process has exited
C17_Witness ==
    /\ ConfigFailed
    /\ pc = "exit"
    /\ exit_code = 1

\* the detail request `op` for the resource id
Detail(op, id) == Request(op, <<id>>, None, None)

\* the container and the infrastructure that step i of the log belongs to:
\* those of the latest infrastructure listing and base-record request
LastOf(i, op) == Max({j \in 1..i : reqlog[j].req.op = op})

ContainerAt(i) == reqlog[LastOf(i, "list_exadata_infrastructures")].req.args[1]

ResourceAt(i) == reqlog[LastOf(i, "get_exadata_infrastructure")].req.args[1]

\* the position of the item with identifier id in a listing
Pos(listing, id) == CHOOSE j \in 1..Len(listing) : listing[j].id = id

\* the requests that can directly follow step i of the log, answered with
\* resp, when the steps are taken one after the other, each resource in turn
NextInOrder(i, resp) ==
    LET req == reqlog[i].req
        op == req.op
        id == req.args[Len(req.args)]
        further == [req EXCEPT !.page = resp.next_page]
        resources == InfrastructuresOf(ContainerAt(i))
        children == VmClustersOf(ContainerAt(i), ResourceAt(i))
        nextContainer ==
            {Request("list_exadata_infrastructures", <<c.id>>, Str("DISPLAYNAME"), None) :
                c \in Range(compartments_to_scan)}
        afterResource ==
            IF Pos(resources, ResourceAt(i)) < Len(resources)
            THEN {Detail("get_exadata_infrastructure",
                         resources[Pos(resources, ResourceAt(i)) + 1].id)}
            ELSE nextContainer
    IN IF resp.status # "ok" THEN {}
       ELSE IF op = "get_tenancy"
       THEN {Request("list_compartments", <<id>>, None, None)}
       ELSE IF op \in ListOps /\ resp.next_page # None THEN {further}
       ELSE IF op = "list_compartments" THEN nextContainer
       ELSE IF op = "list_exadata_infrastructures"
       THEN IF resources = <<>>
            THEN nextContainer
            ELSE {Detail("get_exadata_infrastructure", resources[1].id)}
       ELSE IF op = "get_exadata_infrastructure"
       THEN {Detail("get_exadata_infrastructure_ocpus", id)}
       ELSE IF op = "get_exadata_infrastructure_ocpus"
       THEN {Detail("get_exadata_infrastructure_un_allocated_resources", id)}
       ELSE IF op = "get_exadata_infrastructure_un_allocated_resources"
       THEN {Request("list_vm_clusters", <<ContainerAt(i), id>>, Str("DISPLAYNAME"), None)}
       ELSE IF op = "list_vm_clusters"
       THEN IF children = <<>>
            THEN afterResource
            ELSE {Detail("get_vm_cluster", children[1].id)}
       ELSE IF op = "get_vm_cluster" THEN {Detail("get_vm_cluster_iorm_config", id)}
       ELSE IF op = "get_vm_cluster_iorm_config" THEN {Detail("list_vm_cluster_patches", id)}
       ELSE IF Pos(children, id) < Len(children)
       THEN {Detail("get_vm_cluster", children[Pos(children, id) + 1].id)}
       ELSE afterResource

\* the containers scanned before the running one that have infrastructures
PopulatedBefore(n) ==
    {j \in 1..n - 1 : InfrastructuresOf(compartments_to_scan[j].id) # <<>>}

(***************************************************************************)
(* C18: the steps of a run are taken one after the other.  An answered     *)
(* request that failed fatally is the last one; an optional request is     *)
(* followed by the next step whether it failed or not; otherwise the next  *)
(* request is the one the order fetch-details, list-children,              *)
(* fetch-child-details allows: the three detail requests of a resource,    *)
(* then all pages of its child listing, then base record, IORM and patches *)
(* of each child in turn, and only then the next resource or container.    *)
(* The entry of a resource is attached to its container's entry when all   *)
(* its children's details are built and not before (the entries attached   *)
(* are those of the resources before the running one, each with all its    *)
(* children), the child details built are those of the children before the *)
(* running one, and a container entry is in the Report only when all its   *)
(* resources are attached (the Report holds the populated containers       *)
(* before the running one, each with all its resources).                   *)
(***************************************************************************)
C18_StepsStrictlyOrdered ==
    /\ \A i \in 1..Len(reqlog) - 1 :
          reqlog[i + 1].req
          \in NextInOrder(i, IF reqlog[i].req.op \in OptionalOps
                             THEN [reqlog[i].resp EXCEPT !.status = "ok"]
                             ELSE reqlog[i].resp)
    /\ pc \in InfraLoopPcs
       => /\ Len(compartment_data.infrastructures) = ii - 1
          /\ \A j \in 1..ii - 1 :
                LET entry == compartment_data.infrastructures[j]
                IN /\ entry.details.infrastructure.id = infrastructures[j].id
                   /\ Len(entry.vm_clusters)
                      = Len(VmClustersOf(compartment.id, infrastructures[j].id))
    /\ pc \in ClusterLoopPcs
       => /\ Len(vm_clusters_details) = ki - 1
          /\ \A j \in 1..ki - 1 : vm_clusters_details[j].cluster.id = vm_clusters[j].id
    /\ DiscoveryDone
       => /\ Len(result.compartments) = Cardinality(PopulatedBefore(ci))
          /\ \A c \in 1..Len(result.compartments) :
                Len(result.compartments[c].infrastructures)
                = Len(InfrastructuresOf(result.compartments[c].compartment_id))

\* the second infrastructure of a container is being processed after the
\* first one was attached with its VM cluster
C18_Witness ==
    /\ pc = "get_exadata_infrastructure_ocpus"
    /\ ii = 2
    /\ Len(compartment_data.infrastructures) = 1
    /\ Len(compartment_data.infrastructures[1].vm_clusters) = 1

(***************************************************************************)
(* C19: no request is issued a second time after it failed.  A failed      *)
(* listing, discovery or mandatory detail request is the last request of   *)
(* the run; a failed optional sub-record request occurs once in the run's  *)
(* request log.                                                            *)
(***************************************************************************)
C19_FailedRequestIssuedOnce ==
    \A i \in 1..Len(reqlog) :
        Failed(reqlog[i])
        => /\ reqlog[i].req.op \notin OptionalOps => i = Len(reqlog)
           /\ \A j \in 1..Len(reqlog) : j # i => reqlog[j].req # reqlog[i].req

\* the progress notifications of the traversal
ProgressTexts == {"Scanning compartment", "Processing infrastructure", "Processing VM cluster"}

ProgressLines(out) == {i \in 1..Len(out) : out[i].text \in ProgressTexts}

\* the requests of the traversal: all but those of the discovery
TraversalOps ==
    {"list_exadata_infrastructures", "list_vm_clusters"} \cup MandatoryOps \cup OptionalOps

\* the display name under which the listings of kind op returned the item id
ListedName(op, id) == (CHOOSE e \in ListedItems(provider, op) : e.id = id).display_name

\* the progress line announces the work the request belongs to: the scan of
\* the request's compartment, or the processing of its infrastructure or of
\* its VM cluster
Announces(line, req) ==
    LET id == req.args[Len(req.args)]
    IN IF req.op = "list_exadata_infrastructures"
       THEN line.text = "Scanning compartment" /\ line.args = <<CompName(id), id>>
       ELSE IF req.op \in {"list_vm_clusters", "get_exadata_infrastructure"} \cup InfraOptionalOps
       THEN /\ line.text = "Processing infrastructure"
            /\ line.args = <<ListedName("list_exadata_infrastructures", id)>>
       ELSE /\ line.text = "Processing VM cluster"
            /\ line.args = <<ListedName("list_vm_clusters", id)>>

\* the last progress line printed announces the request
LastProgressAnnounces(out, req) ==
    /\ ProgressLines(out) # {}
    /\ Announces(out[Max(ProgressLines(out))], req)

\* a step that issues a request of the traversal finds the request announced
\* by the last progress line printed before the step
AnnouncedBeforeIssued ==
    reqlog' # reqlog
    => LET req == reqlog'[Len(reqlog')].req
       IN req.op \in TraversalOps => LastProgressAnnounces(stdout, req)

(***************************************************************************)
(* C20: every request of the traversal is issued after the progress line   *)
(* that announces it: "Scanning compartment" with the compartment's name   *)
(* and identifier before the infrastructure listing of a compartment,      *)
(* "Processing infrastructure" with its display name before the detail     *)
(* requests and the VM cluster listing of an infrastructure, "Processing   *)
(* VM cluster" with its display name before the detail requests of a VM    *)
(* cluster, and no other progress line in between.  So when a request of   *)
(* the traversal has ended the run with an error, the last progress line   *)
(* printed names the compartment, infrastructure or VM cluster of that     *)
(* request.                                                                *)
(***************************************************************************)
C20_ProgressPrecedesWork ==
    /\ [][AnnouncedBeforeIssued]_vars
    /\ []((raised # None /\ raised.request.op \in TraversalOps)
          => LastProgressAnnounces(stdout, raised.request))

\* the base-record request of a VM cluster ended the run; an infrastructure
\* and a VM cluster had been announced
C20_Witness ==
    /\ raised # None
    /\ raised.request.op = "get_vm_cluster"
    /\ Cardinality(ProgressLines(stdout)) >= 3

(***************************************************************************)
(* C21: the Report mirrors the listings one-to-one.  The infrastructure    *)
(* entries of a container entry are as many as, and in the order of, the   *)
(* infrastructures the listing of that container returned; the VM cluster  *)
(* entries of an infrastructure entry are as many as, and in the order of, *)
(* the VM clusters the listing for that container and that infrastructure  *)
(* returned; and the detail at each position is the one the requests made  *)
(* with the identifier of the item listed at that position returned.       *)
(***************************************************************************)
C21_ReportMirrorsListings ==
    HasReport =>
        \A c \in 1..Len(returned.compartments) :
            LET entry == returned.compartments[c]
                listed == InfrastructuresOf(entry.compartment_id)
            IN /\ Len(entry.infrastructures) = Len(listed)
               /\ \A i \in 1..Len(listed) :
                     LET e == entry.infrastructures[i]
                         children == VmClustersOf(entry.compartment_id, listed[i].id)
                     IN /\ e.details = OwnInfraDetails(listed[i].id)
                        /\ e.details.infrastructure.id = listed[i].id
                        /\ Len(e.vm_clusters) = Len(children)
                        /\ \A k \in 1..Len(children) :
                              /\ e.vm_clusters[k] = OwnClusterDetails(children[k].id)
                              /\ e.vm_clusters[k].cluster.id = children[k].id

\* a Report with a container entry of two infrastructures, the second of
\* which has a VM cluster
C21_Witness ==
    /\ HasReport
    /\ \E c \in 1..Len(returned.compartments) :
          /\ Len(returned.compartments[c].infrastructures) = 2
          /\ Len(returned.compartments[c].infrastructures[2].vm_clusters) = 1

(***************************************************************************)
(* C22: a run whose traversal returned a Report without container entries  *)
(* ends with exit status 0 and leaves the output file unwritten, after the *)
(* line "No Exadata infrastructures found."; a run that ends with exit     *)
(* status 0 has written the output file exactly when the Report has at     *)
(* least one container entry, and then the file holds the Report.          *)
(***************************************************************************)
C22_EmptyReportNotSaved ==
    (pc = "exit" /\ HasReport)
    => /\ returned.compartments = <<>>
          => /\ exit_code = 0
             /\ output_file = None
             /\ \E i \in 1..Len(stdout) :
                   stdout[i].text = "No Exadata infrastructures found."
       /\ exit_code = 0
          => /\ output_file # None <=> returned.compartments # <<>>
             /\ output_file # None => output_file = JsonData(returned)

\* a run that scanned two containers without infrastructures has ended
C22_Witness ==
    /\ pc = "exit"
    /\ HasReport
    /\ returned.compartments = <<>>
    /\ Len(compartments_to_scan) >= 2
    /\ exit_code = 0

====
